---- MODULE Spec2Model ----
(***************************************************************************)
(* Model of terra_ai_datasets/creation/arrays.py: the array builders that  *)
(* turn one raw sample (numeric sequence, label, text, audio clip, image)  *)
(* into a tensor (create) and apply a fitted transform to it (preprocess). *)
(*                                                                         *)
(* A builder call is one step: the caller, idle, invokes an operation on   *)
(* inputs drawn from small sets; the call and what it returned or raised   *)
(* are kept in call/result until the caller takes the result (Return).     *)
(* ImageArray.create and SegmentationArray.create are split into their     *)
(* statements, because the claims about them concern the file handle that  *)
(* Image.open acquires.                                                    *)
(*                                                                         *)
(* Numbers are integers; a quotient is kept as an exact fraction.  A       *)
(* tensor is [shape, data], data in row-major (C) order as numpy stores it.*)
(***************************************************************************)
EXTENDS Integers, Sequences, FiniteSets, TLC

VARIABLES pc, call, result, handle, transform_in

vars == <<pc, call, result, handle, transform_in>>

----------------------------------------------------------------------------
(* Bounds of the model *)

MaxSeqLen == 3
MaxLength == 3
MaxTrendLen == 3
MaxClassNames == 2

----------------------------------------------------------------------------
(* Helpers *)

Ok(v) == [ok |-> TRUE, val |-> v]

Fail(e) == [ok |-> FALSE, err |-> e]

NoCall == [op |-> "none"]

NoResult == [ok |-> TRUE, val |-> "none"]

Abs(x) == IF x < 0 THEN -x ELSE x

\* np.zeros((n,)) as a list of values
Zeros(n) == [i \in 1..n |-> 0]

\* s[:n]
Take(s, n) == IF Len(s) <= n THEN s ELSE SubSeq(s, 1, n)

SeqsUpTo(S, n) == UNION {[1..k -> S] : k \in 0..n}

----------------------------------------------------------------------------
(* TimeseriesArray.create *)

SeriesVals == {1, 2}

TimeseriesArray_create(source, length) ==
    IF Len(source) < length
    THEN source \o Zeros(length - Len(source))
    ELSE source

CallTimeseriesCreate ==
    /\ pc = "idle"
    /\ \E source \in SeqsUpTo(SeriesVals, MaxSeqLen), length \in 1..MaxLength :
         /\ call' = [op |-> "TimeseriesArray.create", source |-> source, length |-> length]
         /\ result' = Ok(TimeseriesArray_create(source, length))
    /\ pc' = "returned"
    /\ UNCHANGED <<handle, transform_in>>

----------------------------------------------------------------------------
(* TrendArray.create *)

TrendVals == {-100, 0, 90, 100, 102, 105, 110}

Deviations == {0, 5}

\* numpy true division of two numeric scalars: a zero divisor raises nothing,
\* it yields inf (or nan for 0/0) with a RuntimeWarning
NpDivide(a, b) ==
    IF b # 0 THEN [kind |-> "finite", num |-> a, den |-> b]
    ELSE IF a # 0 THEN [kind |-> "inf"]
    ELSE [kind |-> "nan"]

\* abs(q) * 100 <= deviation, as IEEE comparison: false for inf and nan
AbsPctLeq(q, deviation) ==
    /\ q.kind = "finite"
    /\ Abs(q.num) * 100 <= deviation * Abs(q.den)

\* np.zeros((n,)) with a 1 at the zero-based index
OneHot(n, index) == [i \in 1..n |-> IF i = index + 1 THEN 1 ELSE 0]

TrendLabel_upfirst(first_val, second_val, deviation) ==
    IF second_val > first_val THEN 1
    ELSE IF AbsPctLeq(NpDivide(second_val - first_val, first_val), deviation) THEN 0
    ELSE 2

TrendLabel(first_val, second_val, deviation) ==
    IF AbsPctLeq(NpDivide(second_val - first_val, first_val), deviation) THEN 0
    ELSE IF second_val > first_val THEN 1
    ELSE 2

TrendArray_create(source, deviation, one_hot_encoding) ==
    IF Len(source) < 2 THEN Fail("IndexError")
    ELSE LET array == TrendLabel(source[1], source[2], deviation)
         IN  IF one_hot_encoding THEN Ok(OneHot(3, array)) ELSE Ok(array)

CallTrendCreate ==
    /\ pc = "idle"
    /\ \E source \in SeqsUpTo(TrendVals, MaxTrendLen), deviation \in Deviations,
          one_hot_encoding \in BOOLEAN :
         /\ call' = [op |-> "TrendArray.create", source |-> source,
                     deviation |-> deviation, one_hot_encoding |-> one_hot_encoding]
         /\ result' = TrendArray_create(source, deviation, one_hot_encoding)
    /\ pc' = IF result'.ok THEN "returned" ELSE "raised"
    /\ UNCHANGED <<handle, transform_in>>

----------------------------------------------------------------------------
(* ClassificationArray.create (CategoricalArray inherits it unchanged) *)

Labels == {"cat", "dog", "bird"}

ClassKinds == {"ClassificationArray", "CategoricalArray"}

ListIndex_last(list, x) ==
    IF \E i \in 1..Len(list) : list[i] = x
    THEN Len(list) - 1
    ELSE -1

\* list.index(x): zero-based position of the first occurrence, -1 for ValueError
ListIndex(list, x) ==
    IF \E i \in 1..Len(list) : list[i] = x
    THEN (CHOOSE i \in 1..Len(list) : list[i] = x /\ \A j \in 1..(i - 1) : list[j] # x) - 1
    ELSE -1

ClassificationArray_create(source, classes_names, one_hot_encoding) ==
    LET array == ListIndex(classes_names, source)
    IN  IF array < 0 THEN Fail("ValueError")
        ELSE IF one_hot_encoding THEN Ok(OneHot(Len(classes_names), array))
        ELSE Ok(array)

CallClassificationCreate ==
    /\ pc = "idle"
    /\ \E kind \in ClassKinds, source \in Labels,
          classes_names \in SeqsUpTo(Labels, MaxClassNames) \ {<<>>},
          one_hot_encoding \in BOOLEAN :
         /\ call' = [op |-> "ClassificationArray.create", class |-> kind, source |-> source,
                     classes_names |-> classes_names, one_hot_encoding |-> one_hot_encoding]
         /\ result' = ClassificationArray_create(source, classes_names, one_hot_encoding)
    /\ pc' = IF result'.ok THEN "returned" ELSE "raised"
    /\ UNCHANGED <<handle, transform_in>>

----------------------------------------------------------------------------
(* TextArray.preprocess *)

MaxTextChars == 3
MaxTexts == 2
MaxWords == 2
MaxTextLength == 2
MaxW2vSize == 2
NumWords == 3

Chars == {"a", " "}

Texts == SeqsUpTo(Chars, MaxTextChars)

\* the fitted Tokenizer: word_index of "a", "aa", "aaa", num_words = NumWords
WordIndex(word) ==
    IF word = <<"a">> THEN 1
    ELSE IF word = <<"a", "a">> THEN 2
    ELSE IF word = <<"a", "a", "a">> THEN 3
    ELSE 0

\* the fitted word2vec table knows the word "a" only
W2vVocab == {<<"a">>}

RECURSIVE SplitFrom(_, _, _)
SplitFrom(text, i, word) ==
    IF i > Len(text) THEN <<word>>
    ELSE IF text[i] = " " THEN <<word>> \o SplitFrom(text, i + 1, <<>>)
    ELSE SplitFrom(text, i + 1, Append(word, text[i]))

\* text.split(' '): every single space separates, empty words are kept
Split(text) == SplitFrom(text, 1, <<>>)

\* Tokenizer.texts_to_sequences([text])[0]: empty words, words without an
\* index and words whose index is >= num_words are dropped
IsToken(word) == word # <<>> /\ WordIndex(word) > 0 /\ WordIndex(word) < NumWords

texts_to_sequences(text) ==
    LET words == SelectSeq(Split(text), IsToken)
    IN  [k \in 1..Len(words) |-> WordIndex(words[k])]

\* Tokenizer.texts_to_matrix([text])[0], binary mode: num_words entries
texts_to_matrix(text) ==
    LET ids == texts_to_sequences(text)
    IN  [j \in 1..NumWords |-> IF \E k \in 1..Len(ids) : ids[k] = j - 1 THEN 1 ELSE 0]

EmbeddingRow_notrunc(text_array, mode, max_words, length) ==
    IF mode = "full" /\ Len(text_array) < max_words
    THEN text_array \o Zeros(max_words - Len(text_array))
    ELSE IF mode = "length_and_step" /\ Len(text_array) < length
    THEN text_array \o Zeros(length - Len(text_array))
    ELSE text_array

EmbeddingRow(text_array, mode, max_words, length) ==
    IF mode = "full" /\ Len(text_array) < max_words
    THEN text_array \o Zeros(max_words - Len(text_array))
    ELSE IF mode = "full" /\ Len(text_array) > max_words
    THEN Take(text_array, max_words)
    ELSE IF mode = "length_and_step" /\ Len(text_array) < length
    THEN text_array \o Zeros(length - Len(text_array))
    ELSE text_array

\* preprocess_obj.wv[word], or the zero vector on KeyError
WordVector(word, word2vec_size) ==
    IF word \in W2vVocab THEN [i \in 1..word2vec_size |-> 1] ELSE Zeros(word2vec_size)

Word2VecRow(text, length, word2vec_size) ==
    LET words == Split(text)
        text_array == [k \in 1..Len(words) |-> WordVector(words[k], word2vec_size)]
    IN  IF Len(text_array) < length
        THEN text_array \o [k \in 1..(length - Len(text_array)) |-> Zeros(word2vec_size)]
        ELSE text_array

TextRow(text, p) ==
    IF p.preprocessing = "embedding"
    THEN EmbeddingRow(texts_to_sequences(text), p.mode, p.max_words, p.length)
    ELSE IF p.preprocessing = "bag_of_words"
    THEN texts_to_matrix(text)
    ELSE Word2VecRow(text, p.length, p.word2vec_size)

Uniform(rows) == \A i, j \in 1..Len(rows) : Len(rows[i]) = Len(rows[j])

\* np.array(array): rows of unequal length raise ValueError (numpy >= 1.24)
\* or give a 1-D array of list objects (older numpy)
NpArrayOutcomes == {"ValueError", "object_array"}

NpArray(rows, ragged) ==
    IF Uniform(rows) \/ ragged = "object_array" THEN Ok(rows) ELSE Fail("ValueError")

TextParams ==
    [preprocessing : {"embedding"}, mode : {"full"}, max_words : 1..MaxWords,
     length : {1}, word2vec_size : {1}]
    \cup [preprocessing : {"embedding"}, mode : {"length_and_step"}, max_words : {1},
          length : 1..MaxTextLength, word2vec_size : {1}]
    \cup [preprocessing : {"bag_of_words"}, mode : {"full"}, max_words : {1},
          length : {1}, word2vec_size : {1}]
    \cup [preprocessing : {"word_to_vec"}, mode : {"full"}, max_words : {1},
          length : 1..MaxTextLength, word2vec_size : 1..MaxW2vSize]

TextArray_preprocess(text_list, p, ragged) ==
    NpArray([i \in 1..Len(text_list) |-> TextRow(text_list[i], p)], ragged)

CallTextPreprocess ==
    /\ pc = "idle"
    /\ \E text_list \in SeqsUpTo(Texts, MaxTexts) \ {<<>>}, p \in TextParams,
          ragged \in NpArrayOutcomes :
         /\ call' = [op |-> "TextArray.preprocess", text_list |-> text_list, parameters |-> p]
         /\ result' = TextArray_preprocess(text_list, p, ragged)
    /\ pc' = IF result'.ok THEN "returned" ELSE "raised"
    /\ UNCHANGED <<handle, transform_in>>

----------------------------------------------------------------------------
(* AudioArray.create *)

MaxHalfSeconds == 3
MaxSampleRate == 3
MaxLoaded == 3
MaxFrames == 2

SampleVals == {1, 2}

MatrixFeatures == {"chroma_stft", "mfcc", "spectral_centroid", "spectral_bandwidth",
                   "spectral_rolloff"}

AudioParameterTypes == MatrixFeatures \cup {"rms", "zero_crossing_rate", "audio_signal"}

\* the source "path;start:stop" as its ';'-separated fields, the time range as
\* <<start, stop>> in half seconds; a source without ';' has one field only
AudioSources ==
    {<<"clip.wav">>}
    \cup {<<"clip.wav", <<start, stop>>>> :
            start \in 0..MaxHalfSeconds, stop \in 0..MaxHalfSeconds}

\* round(x, 0) of x = n / 2: Python rounds a tie to the even neighbour
RoundHalves(n) ==
    LET q == n \div 2
    IN  IF n % 2 = 0 THEN q
        ELSE IF q % 2 = 0 THEN q ELSE q + 1

\* array.transpose() of a 2-D tensor
Transpose(t) ==
    LET r == t.shape[1]
        c == t.shape[2]
    IN  [t EXCEPT !.shape = <<c, r>>,
                  !.data = [k \in 1..(r * c) |->
                              t.data[((k - 1) % r) * c + ((k - 1) \div r) + 1]]]

\* what librosa.feature.<name> returns: an (n_rows, frames) matrix whose
\* entries are identified by their position
FeatureMatrix(n_rows, frames, dtype) ==
    [shape |-> <<n_rows, frames>>, data |-> [k \in 1..(n_rows * frames) |-> k],
     dtype |-> dtype]

\* matrix[0]
FirstRow(t) ==
    [shape |-> <<t.shape[2]>>, data |-> SubSeq(t.data, 1, t.shape[2]), dtype |-> t.dtype]

\* lines 107-109: the loaded float32 waveform, padded with float64 zeros
PadSignal(y, sample_rate, duration) ==
    LET target == RoundHalves(sample_rate * duration)
    IN  IF target > Len(y)
        THEN [data |-> y \o Zeros(target - Len(y)), dtype |-> "float64"]
        ELSE [data |-> y, dtype |-> "float32"]

AudioArray_create(source, sample_rate, parameter, y, n_rows, frames) ==
    IF Len(source) # 2 THEN Fail("ValueError")
    ELSE
      LET offset == source[2][1]
          stop == source[2][2]
          duration == stop - offset
          padded == PadSignal(y, sample_rate, duration)
          array ==
            IF parameter \in MatrixFeatures
            THEN FeatureMatrix(n_rows, frames, padded.dtype)
            ELSE IF parameter = "rms"
            THEN FirstRow(FeatureMatrix(1, frames, padded.dtype))
            ELSE IF parameter = "zero_crossing_rate"
            THEN FeatureMatrix(1, frames, "float64")
            ELSE [shape |-> <<Len(padded.data)>>, data |-> padded.data,
                  dtype |-> padded.dtype]
          transposed == IF Len(array.shape) = 2 THEN Transpose(array) ELSE array
      IN  Ok(IF transposed.dtype = "float64"
             THEN [transposed EXCEPT !.dtype = "float32"]
             ELSE transposed)

CallAudioCreate ==
    /\ pc = "idle"
    /\ \E source \in AudioSources, sample_rate \in 1..MaxSampleRate,
          parameter \in AudioParameterTypes,
          y \in SeqsUpTo(SampleVals, MaxLoaded),
          n_rows \in 1..2, frames \in 1..MaxFrames :
         /\ Len(source) = 2 => source[2][1] <= source[2][2]
         /\ parameter \notin MatrixFeatures => n_rows = 1
         /\ parameter = "audio_signal" => frames = 1
         /\ call' = [op |-> "AudioArray.create", source |-> source,
                     sample_rate |-> sample_rate, parameter |-> parameter, loaded |-> y]
         /\ result' = AudioArray_create(source, sample_rate, parameter, y, n_rows, frames)
    /\ pc' = IF result'.ok THEN "returned" ELSE "raised"
    /\ UNCHANGED <<handle, transform_in>>

----------------------------------------------------------------------------
(* preprocess of the column-reshape variants *)

MaxDim == 2
MaxRank == 2

TensorVals == {1, 2}

RECURSIVE Prod(_)
Prod(shape) == IF shape = <<>> THEN 1 ELSE shape[1] * Prod(Tail(shape))

Tensors ==
    UNION {[shape : {shape}, data : [1..Prod(shape) -> TensorVals]] :
             shape \in SeqsUpTo(1..MaxDim, MaxRank)}

ColumnVariants == {"TimeseriesArray", "RegressionArray", "DepthArray"}

\* the fitted transforms: a scaler maps every element, a row filter returns
\* fewer rows than it was given; both reject input that is not 2-D
Transforms == {"scaler", "row_filter"}

TransformApply(transform, t) ==
    IF Len(t.shape) # 2 THEN Fail("ValueError")
    ELSE IF transform = "scaler"
    THEN Ok([shape |-> t.shape, data |-> [k \in 1..Len(t.data) |-> 2 * t.data[k] + 1]])
    ELSE Ok([shape |-> <<t.shape[1] - 1, t.shape[2]>>,
             data |-> SubSeq(t.data, t.shape[2] + 1, Len(t.data))])

\* array.reshape(-1, 1)
ReshapeColumn(t) == [shape |-> <<Len(t.data), 1>>, data |-> t.data]

Reshape_keep(t, shape) == Ok(t)

\* array.reshape(shape)
Reshape(t, shape) ==
    IF Prod(shape) = Len(t.data)
    THEN Ok([shape |-> shape, data |-> t.data])
    ELSE Fail("ValueError")

\* what the preprocess hands to transform
AudioTransformIn(array) == IF Len(array.shape) > 1 THEN ReshapeColumn(array) ELSE array

AudioArray_preprocess(array, transform) ==
    LET out == TransformApply(transform, AudioTransformIn(array))
    IN  IF out.ok THEN Reshape(out.val, array.shape) ELSE out

RegressionArray_preprocess(array, transform) ==
    LET out == TransformApply(transform, ReshapeColumn(array))
    IN  IF out.ok THEN Reshape(out.val, array.shape) ELSE out

CallAudioPreprocess ==
    /\ pc = "idle"
    /\ \E array \in Tensors, transform \in Transforms :
         /\ array.shape # <<>>
         /\ call' = [op |-> "preprocess", class |-> "AudioArray", array |-> array,
                     transform |-> transform]
         /\ transform_in' = AudioTransformIn(array)
         /\ result' = AudioArray_preprocess(array, transform)
    /\ pc' = IF result'.ok THEN "returned" ELSE "raised"
    /\ UNCHANGED handle

CallColumnPreprocess ==
    /\ pc = "idle"
    /\ \E variant \in ColumnVariants, array \in Tensors, transform \in Transforms :
         /\ variant = "RegressionArray" => array.shape = <<>>
         /\ call' = [op |-> "preprocess", class |-> variant, array |-> array,
                     transform |-> transform]
         /\ transform_in' = ReshapeColumn(array)
         /\ result' = RegressionArray_preprocess(array, transform)
    /\ pc' = IF result'.ok THEN "returned" ELSE "raised"
    /\ UNCHANGED handle

----------------------------------------------------------------------------
(* SegmentationArray.image_to_ohe *)

MaxPixels == 2
MaxSegClasses == 2

\* an image array is a sequence of rows, a row a sequence of pixels, a pixel
\* the tuple of its channel values
RgbPixels == {<<250, 5, 5>>, <<0, 0, 0>>, <<255, 0, 0>>, <<244, 0, 0>>, <<250, 5, 6>>}

GrayPixels == {<<0>>, <<250>>}

ClassColors == {<<255, 0, 0>>, <<250, 5, 0>>, <<0, 0, 0>>}

RgbRanges == {5, 10}

ImageShapes == {hw \in (1..MaxPixels) \X (1..MaxPixels) : hw[1] * hw[2] <= MaxPixels}

ImagesOf(height, width, pixels) == [1..height -> [1..width -> pixels]]

RgbImages == UNION {ImagesOf(hw[1], hw[2], RgbPixels) : hw \in ImageShapes}

GrayImages == UNION {ImagesOf(hw[1], hw[2], GrayPixels) : hw \in ImageShapes}

\* the rgb tuples of parameters.classes.values(), in dictionary order
SegClasses == SeqsUpTo(ClassColors, MaxSegClasses) \ {<<>>}

InRange_strict(color, pixel, mask_range) ==
    \A k \in 1..3 : /\ color[k] + mask_range > pixel[k]
                    /\ pixel[k] > color[k] - mask_range

InRange(color, pixel, mask_range) ==
    \A k \in 1..3 : /\ color[k] + mask_range >= pixel[k]
                    /\ pixel[k] >= color[k] - mask_range

HasRgb(img_array) ==
    \A r \in 1..Len(img_array) : \A c \in 1..Len(img_array[r]) : Len(img_array[r][c]) >= 3

\* img_array[:, :, 2] of an array with fewer than three channels raises IndexError
image_to_ohe(img_array, classes, rgb_range) ==
    IF ~HasRgb(img_array) THEN Fail("IndexError")
    ELSE Ok([r \in 1..Len(img_array) |->
               [c \in 1..Len(img_array[r]) |->
                  [n \in 1..Len(classes) |->
                     IF InRange(classes[n], img_array[r][c], rgb_range) THEN 1 ELSE 0]]])

CallImageToOhe ==
    /\ pc = "idle"
    /\ \E img_array \in RgbImages \cup GrayImages, classes \in SegClasses,
          rgb_range \in RgbRanges :
         /\ call' = [op |-> "SegmentationArray.image_to_ohe", img_array |-> img_array,
                     classes |-> classes, rgb_range |-> rgb_range]
         /\ result' = image_to_ohe(img_array, classes, rgb_range)
    /\ pc' = IF result'.ok THEN "returned" ELSE "raised"
    /\ UNCHANGED <<handle, transform_in>>

----------------------------------------------------------------------------
(* ImageArray.create and SegmentationArray.create, statement by statement *)

\* the files a source path may name, and what Pillow makes of them
ImageFiles == {"missing", "not_an_image", "truncated", "single_frame", "multi_frame",
               "grayscale"}

\* the pixel array np.asarray(image) decodes
Decoded(file) ==
    IF file = "grayscale" THEN <<<< <<250>> >>>>
    ELSE <<<< <<250, 5, 5>>, <<0, 0, 0>> >>>>

ImageNetworkTypes == {"linear", "convolutional"}

ImageParams == [height : 1..MaxPixels, width : 1..MaxPixels, network : ImageNetworkTypes]

SegParams == [height : 1..MaxPixels, width : 1..MaxPixels, classes : SegClasses,
              rgb_range : RgbRanges]

\* array.reshape(np.prod(np.array(array.shape))): all values in row-major order
RECURSIVE FlattenSeq(_)
FlattenSeq(s) == IF s = <<>> THEN <<>> ELSE Head(s) \o FlattenSeq(Tail(s))

Flatten(array) == FlattenSeq(FlattenSeq(array))

\* resize_frame: some array of the target shape with the channels of its input
ResizeFrame(image_array, height, width) ==
    ImagesOf(height, width,
             IF Len(image_array[1][1]) = 1 THEN GrayPixels ELSE RgbPixels)

\* Image.open(source): Pillow opens the file itself and closes it again when
\* it cannot identify an image in it
ImageOpen ==
    /\ pc = "idle"
    /\ \E file \in ImageFiles :
         /\ \/ \E p \in ImageParams :
                 /\ p.height * p.width <= MaxPixels
                 /\ call' = [op |-> "ImageArray.create", source |-> file, parameters |-> p]
            \/ \E p \in SegParams :
                 /\ p.height * p.width <= MaxPixels
                 /\ call' = [op |-> "SegmentationArray.create", source |-> file,
                             parameters |-> p]
         /\ IF file = "missing"
            THEN pc' = "raised" /\ handle' = "none" /\ result' = Fail("FileNotFoundError")
            ELSE IF file = "not_an_image"
            THEN pc' = "raised" /\ handle' = "closed"
                 /\ result' = Fail("UnidentifiedImageError")
            ELSE pc' = "opened" /\ handle' = "open" /\ result' = NoResult
    /\ UNCHANGED transform_in

\* np.asarray(image): Pillow loads the pixel data; after loading a
\* single-frame file it closes the file it opened, a multi-frame file stays
\* open for seeking, and a truncated file raises out of the load
ImageLoad ==
    /\ pc = "opened"
    /\ IF call.source = "truncated"
       THEN pc' = "raised" /\ result' = Fail("OSError") /\ UNCHANGED handle
       ELSE /\ pc' = "loaded"
            /\ result' = Ok(Decoded(call.source))
            /\ handle' = IF call.source = "multi_frame" THEN "open" ELSE "closed"
    /\ UNCHANGED <<call, transform_in>>

ImageResize ==
    /\ pc = "loaded"
    /\ \/ /\ pc' = "raised"
          /\ result' = Fail("ResizeError")
       \/ /\ \E array \in ResizeFrame(result.val, call.parameters.height,
                                      call.parameters.width) :
               result' = Ok(array)
          /\ pc' = "resized"
    /\ UNCHANGED <<call, handle, transform_in>>

\* lines 39-42
ImageFinish ==
    /\ pc = "resized"
    /\ call.op = "ImageArray.create"
    /\ result' = IF call.parameters.network = "linear"
                 THEN Ok(Flatten(result.val))
                 ELSE result
    /\ pc' = "returned"
    /\ UNCHANGED <<call, handle, transform_in>>

\* lines 204-206
SegmentationFinish ==
    /\ pc = "resized"
    /\ call.op = "SegmentationArray.create"
    /\ result' = image_to_ohe(result.val, call.parameters.classes, call.parameters.rgb_range)
    /\ pc' = IF result'.ok THEN "returned" ELSE "raised"
    /\ UNCHANGED <<call, handle, transform_in>>

----------------------------------------------------------------------------
(* The caller takes the result (or the exception) of the finished call *)

Return ==
    /\ pc \in {"returned", "raised"}
    /\ pc' = "idle"
    /\ call' = NoCall
    /\ result' = NoResult
    /\ handle' = "none"
    /\ transform_in' = "none"

Init ==
    /\ pc = "idle"
    /\ call = NoCall
    /\ result = NoResult
    /\ handle = "none"
    /\ transform_in = "none"

Next ==
    \/ CallTimeseriesCreate
    \/ CallTrendCreate
    \/ CallClassificationCreate
    \/ CallTextPreprocess
    \/ CallAudioCreate
    \/ CallAudioPreprocess
    \/ CallColumnPreprocess
    \/ CallImageToOhe
    \/ ImageOpen
    \/ ImageLoad
    \/ ImageResize
    \/ ImageFinish
    \/ SegmentationFinish
    \/ Return

Spec == Init /\ [][Next]_vars

----------------------------------------------------------------------------
(* Properties *)

IsCall(op) == pc \in {"returned", "raised"} /\ call.op = op

\* C1: under a Timeseries parameters record with length L, create returns a
\* tensor of exactly L elements for every input sequence, whatever its length.
C1_TimeseriesLength ==
    IsCall("TimeseriesArray.create") =>
        result.ok /\ Len(result.val) = call.length

\* C2: for first two values v0 # 0 and v1, TrendArray.create returns 0 when
\* |(v1 - v0) / v0 * 100| <= deviation, else 1 when v1 > v0, else 2; the result
\* depends on no later value; with one_hot_encoding it is the length-3 vector
\* with a single 1 at the label's index.
C2_Expected(v0, v1, deviation) ==
    IF Abs((v1 - v0) * 100) <= deviation * Abs(v0) THEN 0
    ELSE IF v1 > v0 THEN 1
    ELSE 2

C2_TrendLabel ==
    (IsCall("TrendArray.create") /\ Len(call.source) >= 2 /\ call.source[1] # 0) =>
        LET label == C2_Expected(call.source[1], call.source[2], call.deviation)
        IN  /\ result.ok
            /\ ~call.one_hot_encoding => result.val = label
            /\ call.one_hot_encoding =>
                 /\ Len(result.val) = 3
                 /\ \A i \in 1..3 : result.val[i] = IF i = label + 1 THEN 1 ELSE 0

\* a rise inside the deviation band, followed by a third value, labelled flat
C2_Witness ==
    /\ IsCall("TrendArray.create")
    /\ call.source = <<100, 102, 110>>
    /\ call.deviation = 5
    /\ call.one_hot_encoding
    /\ result = Ok(<<1, 0, 0>>)

\* C3: TrendArray.create on a sequence whose first value is 0 fails; it never
\* returns a label.
C3_ZeroFirstValueFails ==
    (IsCall("TrendArray.create") /\ Len(call.source) >= 2 /\ call.source[1] = 0) =>
        ~result.ok

\* C4: in embedding preprocessing with mode "full" every row of the result has
\* exactly max_words ids: the token ids of the text, cut to the first max_words
\* of them or right-padded with zeros.
C4_FullModeLength ==
    (IsCall("TextArray.preprocess") /\ call.parameters.preprocessing = "embedding"
        /\ call.parameters.mode = "full") =>
        /\ result.ok
        /\ Len(result.val) = Len(call.text_list)
        /\ \A i \in 1..Len(call.text_list) :
             LET ids == texts_to_sequences(call.text_list[i])
                 row == result.val[i]
             IN  /\ Len(row) = call.parameters.max_words
                 /\ \A k \in 1..Len(row) :
                      row[k] = IF k <= Len(ids) THEN ids[k] ELSE 0

\* one text with fewer tokens than max_words and one with more, in one call
C4_Witness ==
    /\ IsCall("TextArray.preprocess")
    /\ call.parameters.preprocessing = "embedding"
    /\ call.parameters.mode = "full"
    /\ result.ok
    /\ \E i, j \in 1..Len(call.text_list) :
         /\ Len(texts_to_sequences(call.text_list[i])) < call.parameters.max_words
         /\ Len(texts_to_sequences(call.text_list[j])) > call.parameters.max_words
         /\ Len(result.val[i]) = Len(result.val[j])

\* C5: in every encoding mode and for every list of texts, TextArray.preprocess
\* returns rows of one common length, also for texts longer than the configured
\* length.
C5_UniformRows ==
    IsCall("TextArray.preprocess") =>
        /\ result.ok
        /\ \A i, j \in 1..Len(result.val) : Len(result.val[i]) = Len(result.val[j])

\* C6: image_to_ohe returns a (height, width, num_classes) array of 0 and 1 in
\* which pixel p has 1 in channel n exactly when every channel value of p is
\* within rgb_range of the colour of class n, bounds included; a pixel may be
\* marked in several channels or in none.
C6_ImageToOhe ==
    (IsCall("SegmentationArray.image_to_ohe") /\ HasRgb(call.img_array)) =>
        /\ result.ok
        /\ Len(result.val) = Len(call.img_array)
        /\ \A r \in 1..Len(call.img_array) :
             /\ Len(result.val[r]) = Len(call.img_array[r])
             /\ \A c \in 1..Len(call.img_array[r]) :
                  /\ Len(result.val[r][c]) = Len(call.classes)
                  /\ \A n \in 1..Len(call.classes) :
                       /\ result.val[r][c][n] \in {0, 1}
                       /\ result.val[r][c][n] = 1 <=>
                            \A k \in 1..3 :
                               Abs(call.img_array[r][c][k] - call.classes[n][k])
                                   <= call.rgb_range

\* a pixel on the edge of two overlapping windows, next to one in no window
C6_Witness ==
    /\ IsCall("SegmentationArray.image_to_ohe")
    /\ call.img_array = << << <<250, 5, 5>>, <<244, 0, 0>> >> >>
    /\ call.classes = << <<255, 0, 0>>, <<250, 5, 0>> >>
    /\ call.rgb_range = 5
    /\ result = Ok(<< << <<1, 1>>, <<0, 0>> >> >>)

\* C7: ClassificationArray.create (and CategoricalArray.create) maps a label of
\* classes_names to its zero-based index, with one_hot_encoding to the vector of
\* len(classes_names) entries with a single 1 at that index; a label that is
\* not in classes_names makes the call fail.
C7_Present == \E i \in 1..Len(call.classes_names) : call.classes_names[i] = call.source

C7_Index ==
    CHOOSE i \in 0..(Len(call.classes_names) - 1) :
        /\ call.classes_names[i + 1] = call.source
        /\ \A j \in 0..(i - 1) : call.classes_names[j + 1] # call.source

C7_Classification ==
    IsCall("ClassificationArray.create") =>
        IF C7_Present
        THEN /\ result.ok
             /\ ~call.one_hot_encoding => result.val = C7_Index
             /\ call.one_hot_encoding =>
                  /\ Len(result.val) = Len(call.classes_names)
                  /\ \A i \in 1..Len(result.val) :
                       result.val[i] = IF i = C7_Index + 1 THEN 1 ELSE 0
        ELSE ~result.ok

C7_Witness ==
    /\ IsCall("ClassificationArray.create")
    /\ call.class = "CategoricalArray"
    /\ call.classes_names = <<"cat", "dog">>
    /\ call.source = "cat"
    /\ call.one_hot_encoding
    /\ result = Ok(<<1, 0>>)

\* C8: with the audio_signal feature AudioArray.create returns exactly
\* round(sample_rate * (stop - start)) samples, whatever number of samples the
\* decoder loaded.
C8_SignalLength ==
    (IsCall("AudioArray.create") /\ call.parameter = "audio_signal"
        /\ Len(call.source) = 2) =>
        /\ result.ok
        /\ Len(result.val.data)
             = RoundHalves(call.sample_rate * (call.source[2][2] - call.source[2][1]))

\* C9: preprocess of a column-reshape variant (Audio on a multi-dimensional
\* tensor, Timeseries, Regression, Depth) with a transform that maps a column
\* to a column returns a tensor of the input's shape, a 0-dimensional scalar
\* included, and hands the transform the elements as one column in row-major
\* order.
C9_ShapePreserved ==
    (IsCall("preprocess") /\ call.transform = "scaler"
        /\ (call.class = "AudioArray" => Len(call.array.shape) > 1)) =>
        /\ result.ok
        /\ result.val.shape = call.array.shape
        /\ Len(result.val.data) = Len(call.array.data)
        /\ transform_in.shape = <<Len(call.array.data), 1>>
        /\ transform_in.data = call.array.data

C9_Witness ==
    /\ IsCall("preprocess")
    /\ call.class = "RegressionArray"
    /\ call.transform = "scaler"
    /\ call.array = [shape |-> <<>>, data |-> <<2>>]
    /\ transform_in = [shape |-> <<1, 1>>, data |-> <<2>>]
    /\ result = Ok([shape |-> <<>>, data |-> <<5>>])

\* C10: when ImageArray.create or SegmentationArray.create has returned or
\* raised, the file handle it opened is not open any more.
C10_HandleReleased ==
    (pc \in {"returned", "raised"}
        /\ call.op \in {"ImageArray.create", "SegmentationArray.create"}) =>
        handle # "open"

====
